---- MODULE Spec2Model ----
(***************************************************************************)
(* LedgerConnector (src/src/index.ts): the connection lifecycle of the     *)
(* Ledger wagmi connector, as a state machine.                             *)
(*                                                                         *)
(* The connector runs on a single-threaded event loop.  Every async method *)
(* is a sequence of synchronous segments separated by `await`; a segment   *)
(* is one atomic action here, and segments of different calls interleave.  *)
(* A segment that reads and writes no connector state is joined to a       *)
(* neighbour: one that only receives a response to the segment after it,   *)
(* one that only issues a request to the segment before it.                *)
(***************************************************************************)
EXTENDS Integers, Sequences, FiniteSets, Bags, TLC

\* ------------------------------------------------------------------ bounds
\* calls that may be in flight at the same time
MaxInFlight == 2
\* registrations of a forwarder on one handle beyond which no connect() starts
MaxListeners == 2
\* handles connectKit.getProvider() may hand out in one run
MaxHandles == 2

Handles == 1..MaxHandles

\* ------------------------------------------------------- program constants
\* SupportedProviderImplementations (connect-kit-loader), plus the unset field
LedgerConnect == "LedgerConnect"
WalletConnect == "WalletConnect"
Implementations == {LedgerConnect, WalletConnect}
Undefined == "undefined"

\* ProviderRpcError code tested at index.ts:148
UserRejectedCode == 4001
\* RpcError code tested at index.ts:152
ResourceUnavailableCode == -32002
\* any other code (JSON-RPC internal error), standing for "not 4001, not -32002"
OtherCode == -32603

\* values a transport call or the connect kit can reject with:
\* code, and whether the value is an instance of Error (index.ts:154)
Errors ==
  { [code |-> UserRejectedCode, isError |-> TRUE],
    [code |-> ResourceUnavailableCode, isError |-> TRUE],
    [code |-> ResourceUnavailableCode, isError |-> FALSE],
    [code |-> OtherCode, isError |-> TRUE] }

\* what loadConnectKit() rejects with: a script-load Error carrying no RPC code
KitLoadError == [code |-> 0, isError |-> TRUE]
\* what getAddress(undefined) throws: an ethers INVALID_ARGUMENT Error, no RPC code
InvalidAddressError == [code |-> 0, isError |-> TRUE]

\* raw addresses a wallet may report, and their checksum form
getAddress(a) == "0xaB12"

\* answers to eth_requestAccounts / eth_accounts
AccountLists == {<<>>, <<"0xab12">>, <<"0xAB12", "0xab12">>}

\* the handles a connect kit hands out: EthereumProvider (index.ts:27-34)
\* declares on and removeListener together; connect() and disconnect() probe
\* for them (index.ts:112, 176)
HandleKinds == {[on |-> TRUE, removeListener |-> TRUE],
                [on |-> FALSE, removeListener |-> FALSE]}

\* constructor arguments: no options object, or one whose shimDisconnect is
\* true, false or left out
NoOptions == [given |-> FALSE, shimDisconnect |-> Undefined]
OptionObjects == [given : {TRUE}, shimDisconnect : {"true", "false", Undefined}]
CtorArgs == {NoOptions} \cup OptionObjects

\* index.ts:69-76: the default applies to the options object as a whole
Constructor(arg) ==
  IF arg.given
    THEN [shimDisconnect |-> arg.shimDisconnect]
    ELSE [shimDisconnect |-> "true"]

VARIABLES
  options,                \* this.options (shimDisconnect: "true"/"false"/"undefined")
  connectKit,             \* outcome of #connectKitPromise: "loaded" or "failed"
  provider,               \* #provider: 0 = undefined, else the cached handle
  providerImplementation, \* #providerImplementation
  shimFlag,               \* localStorage has 'ledger.shimDisconnect'
  nHandles,               \* handles handed out by connectKit.getProvider()
  handleCaps,             \* which of on / removeListener the handles expose
  listeners,              \* per handle: registrations of the three forwarders
  emitted,                \* lifecycle signals emitted by the latest step
  calls,                  \* the calls in flight: a bag of call records
  done                    \* the call that ended in the latest step, if any

vars == <<options, connectKit, provider, providerImplementation, shimFlag,
          nHandles, handleCaps, listeners, emitted, calls, done>>

\* ------------------------------------------------------------ call records
\* op: the method; pc: the await the call is suspended at ("idle": it
\* ended); ret: where getProvider() returns to; h: the method's local
\* `provider`; account: its local `account`; res: how the last call ended;
\* log: the calls it made on the connect kit, the handle and the storage,
\* in order.
Pending == [kind |-> "pending", class |-> "none", code |-> 0]
Return(v) == [kind |-> "return", class |-> v, code |-> 0]
Thrown(c, e) == [kind |-> "throw", class |-> c, code |-> e.code]

NoCall == [op |-> "none", pc |-> "idle", ret |-> "none", h |-> 0,
             account |-> "none", res |-> Pending, log |-> <<>>]

Truthy(v) == v = "true"

\* this.options?.shimDisconnect
ShimEnabled == Truthy(options.shimDisconnect)

Init ==
  /\ \E arg \in CtorArgs : options = Constructor(arg)
  /\ connectKit \in {"loaded", "failed"}
  /\ provider = 0
  /\ providerImplementation = Undefined
  /\ shimFlag \in BOOLEAN
  /\ nHandles = 0
  /\ handleCaps \in HandleKinds
  /\ listeners = [x \in Handles |-> 0]
  /\ emitted = <<>>
  /\ done = NoCall
  /\ calls = EmptyBag

\* ------------------------------------------------------------- catch blocks
\* variant of ConnectCatch without the 4001 case
ConnectCatchMissing4001(e) ==
  IF e.code = ResourceUnavailableCode
    THEN (IF e.isError THEN Thrown("raw", e) ELSE Thrown("Error", [code |-> 0]))
    ELSE Thrown("raw", e)

\* variant of ConnectCatch that takes every error for a user rejection
ConnectCatchAllUserRejected(e) == Thrown("UserRejectedRequestError", e)

\* index.ts:147-159
ConnectCatch(e) ==
  IF e.code = UserRejectedCode
    THEN Thrown("UserRejectedRequestError", e)
    ELSE IF e.code = ResourceUnavailableCode
      THEN (IF e.isError THEN Thrown("raw", e) ELSE Thrown("Error", [code |-> 0]))
      ELSE Thrown("raw", e)

\* variant of IsAuthorizedCatch that lets the error through
IsAuthorizedCatchRethrow(e) == Thrown("raw", e)

\* index.ts:264-266
IsAuthorizedCatch(e) == Return("false")

\* how an error raised inside a call leaves the call: through connect's
\* catch, through isAuthorized's catch, or, in disconnect, as it is
Reject(op, e) ==
  CASE op = "connect" -> ConnectCatch(e)
    [] op = "isAuthorized" -> IsAuthorizedCatch(e)
    [] OTHER -> Thrown("raw", e)

\* a call record after it made the calls in entries
Logged(rec, entries) == [rec EXCEPT !.log = rec.log \o entries]

\* a call record after the call ended with result r
Finished(rec, r) == [rec EXCEPT !.pc = "idle", !.ret = "none", !.res = r]

\* a call record suspended at pc
At(rec, pc) == [rec EXCEPT !.pc = pc]

\* accounts[0]
First(accounts) == IF Len(accounts) > 0 THEN accounts[1] ELSE Undefined

\* the call c in flight goes on as rec; a call that ended leaves the bag and
\* is shown in done for the one step
Put(c, rec) ==
  /\ calls' = (calls (-) SetToBag({c}))
                (+) (IF rec.pc = "idle" THEN EmptyBag ELSE SetToBag({rec}))
  /\ done' = (IF rec.pc = "idle" THEN rec ELSE NoCall)

\* a call starts as rec (and may end at once)
Begin(rec) ==
  /\ BagCardinality(calls) < MaxInFlight
  /\ calls' = calls (+) (IF rec.pc = "idle" THEN EmptyBag ELSE SetToBag({rec}))
  /\ done' = (IF rec.pc = "idle" THEN rec ELSE NoCall)

\* a freshly started call
NewCall(op) == [NoCall EXCEPT !.op = op]

\* ------------------------------------------------------------- getProvider
\* where a caller of getProvider() goes on once it holds the handle:
\* getAccount() issues eth_requestAccounts (index.ts:198), getChainId()
\* eth_chainId (index.ts:211), isAuthorized() eth_accounts (index.ts:257);
\* the getProvider() that getSigner() calls has its result (index.ts:235);
\* connect() and disconnect() keep the handle in their local `provider`
Resume(rec, ret, handle) ==
  CASE ret = "ga_req" -> At(Logged(rec, <<"eth_requestAccounts">>), "ga_wait")
    [] ret = "gc_req" -> At(Logged(rec, <<"eth_chainId">>), "gc_wait")
    [] ret = "i_req" -> At(Logged(rec, <<"eth_accounts">>), "i_wait")
    [] ret = "s_prov" -> Finished([rec EXCEPT !.h = handle], Return("provider"))
    [] OTHER -> [rec EXCEPT !.pc = ret, !.h = handle]

\* index.ts:219-229 up to the answer of the connect kit: with a cached
\* handle the caller goes on with it; without one the connect kit is
\* awaited (index.ts:224) and asked for a handle (index.ts:225)
\* variant of GetProviderHead that never looks at the cached handle
GetProviderHeadNeverCached(rec, ret) ==
  IF connectKit = "loaded"
    THEN [Logged(rec, <<"connectKit.getProvider">>)
            EXCEPT !.pc = "gp_wait", !.ret = ret]
    ELSE Finished(rec, Reject(rec.op, KitLoadError))

GetProviderHead(rec, ret) ==
  IF provider # 0
    THEN Resume(rec, ret, provider)
    ELSE IF connectKit = "loaded"
      THEN [Logged(rec, <<"connectKit.getProvider">>)
              EXCEPT !.pc = "gp_wait", !.ret = ret]
      ELSE Finished(rec, Reject(rec.op, KitLoadError))

\* index.ts:225-228: the kit answers with a handle, which is cached and returned
GetProviderResolve(c) ==
  /\ c.pc = "gp_wait"
  /\ nHandles < MaxHandles
  /\ nHandles' = nHandles + 1
  /\ provider' = nHandles + 1
  /\ Put(c, Resume([c EXCEPT !.ret = "none"], c.ret, nHandles + 1))
  /\ emitted' = <<>>
  /\ UNCHANGED <<options, connectKit, providerImplementation, shimFlag,
                 handleCaps, listeners>>

\* index.ts:225: the kit rejects; getProvider has no catch
GetProviderReject(c) ==
  /\ c.pc = "gp_wait"
  /\ \E e \in Errors :
       Put(c, Finished(c, Reject(c.op, e)))
  /\ emitted' = <<>>
  /\ UNCHANGED <<options, connectKit, provider, providerImplementation,
                 shimFlag, nHandles, handleCaps, listeners>>

\* ----------------------------------------------------------------- connect
\* index.ts:89-94: connect() is called and awaits the connect kit
StartConnect ==
  /\ \A h \in Handles : listeners[h] < MaxListeners
  /\ Begin(At(NewCall("connect"), "c_kit"))
  /\ emitted' = <<>>
  /\ UNCHANGED <<options, connectKit, provider, providerImplementation,
                 shimFlag, nHandles, handleCaps, listeners>>

\* index.ts:94-110: checkSupport names the implementation, which is stored;
\* getProvider() is entered
ConnectCheckSupport(c) ==
  /\ c.pc = "c_kit"
  /\ IF connectKit = "loaded"
       THEN \E k \in Implementations :
              /\ providerImplementation' = k
              /\ Put(c,
                   GetProviderHead(Logged(c, <<"connectKit.checkSupport">>),
                                   "c_on"))
       ELSE /\ Put(c,
                   Finished(c, Reject("connect", KitLoadError)))
            /\ UNCHANGED providerImplementation
  /\ emitted' = <<>>
  /\ UNCHANGED <<options, connectKit, provider, shimFlag, nHandles,
                 handleCaps, listeners>>

\* index.ts:112-117: the three forwarders are registered together
Attach(h) ==
  IF handleCaps.on THEN [listeners EXCEPT ![h] = @ + 1] ELSE listeners

\* index.ts:112-121: listeners attached, 'connecting' emitted, getAccount()
\* entered, which enters getProvider()
ConnectAttach(c) ==
  /\ c.pc = "c_on"
  /\ listeners' = Attach(c.h)
  /\ emitted' = << [type |-> "message", payload |-> "connecting"] >>
  /\ Put(c,
       GetProviderHead(
         Logged(c, (IF handleCaps.on THEN <<"provider.on">> ELSE <<>>)
                         \o <<"emit connecting">>),
         "ga_req"))
  /\ UNCHANGED <<options, connectKit, provider, providerImplementation,
                 shimFlag, nHandles, handleCaps>>

\* index.ts:198-204 and 121-122: the accounts arrive; getAddress throws on
\* an empty answer; otherwise connect goes on to getChainId(), which enters
\* getProvider(), and the getAccount() that getSigner() calls returns
GetAccountResponse(c) ==
  /\ c.pc = "ga_wait"
  /\ \E accounts \in AccountLists :
       Put(c,
         IF accounts = <<>>
           THEN Finished(c, Reject(c.op, InvalidAddressError))
           ELSE IF c.op = "connect"
             THEN GetProviderHead(
                    [c EXCEPT !.account = getAddress(First(accounts))],
                    "gc_req")
             ELSE Finished([c EXCEPT !.account = getAddress(First(accounts))],
                           Return("account")))
  /\ emitted' = <<>>
  /\ UNCHANGED <<options, connectKit, provider, providerImplementation,
                 shimFlag, nHandles, handleCaps, listeners>>

\* variant of GetAccountReject in which connect() goes on to getChainId()
GetAccountRejectGoesOn(c) ==
  /\ c.pc = "ga_wait"
  /\ Put(c, GetProviderHead(c, "gc_req"))
  /\ emitted' = <<>>
  /\ UNCHANGED <<options, connectKit, provider, providerImplementation,
                 shimFlag, nHandles, handleCaps, listeners>>

\* index.ts:198: eth_requestAccounts rejects
GetAccountReject(c) ==
  /\ c.pc = "ga_wait"
  /\ \E e \in Errors :
       Put(c, Finished(c, Reject(c.op, e)))
  /\ emitted' = <<>>
  /\ UNCHANGED <<options, connectKit, provider, providerImplementation,
                 shimFlag, nHandles, handleCaps, listeners>>

\* variants of ConnectWritesShim: the flag written for the other
\* implementation, and for any implementation
ConnectWritesShimForWalletConnect ==
  ShimEnabled /\ providerImplementation = WalletConnect

ConnectWritesShimAlways == ShimEnabled

\* index.ts:132-135: the condition under which connect() writes the flag
ConnectWritesShim ==
  ShimEnabled /\ providerImplementation = LedgerConnect

\* index.ts:122-146: the chain id arrives; the flag is written; connect returns
GetChainIdResponse(c) ==
  /\ c.pc = "gc_wait"
  /\ shimFlag' = (IF ConnectWritesShim THEN TRUE ELSE shimFlag)
  /\ Put(c,
       Finished(Logged(c, IF ConnectWritesShim
                                  THEN <<"localStorage.setItem">> ELSE <<>>),
                Return("data")))
  /\ emitted' = <<>>
  /\ UNCHANGED <<options, connectKit, provider, providerImplementation,
                 nHandles, handleCaps, listeners>>

\* variant of GetChainIdReject in which a rejected eth_chainId is issued again
GetChainIdRejectRetries(c) ==
  /\ c.pc = "gc_wait"
  /\ Put(c, GetProviderHead(c, "gc_req"))
  /\ emitted' = <<>>
  /\ UNCHANGED <<options, connectKit, provider, providerImplementation,
                 shimFlag, nHandles, handleCaps, listeners>>

\* index.ts:211: eth_chainId rejects
GetChainIdReject(c) ==
  /\ c.pc = "gc_wait"
  /\ \E e \in Errors :
       Put(c, Finished(c, Reject(c.op, e)))
  /\ emitted' = <<>>
  /\ UNCHANGED <<options, connectKit, provider, providerImplementation,
                 shimFlag, nHandles, handleCaps, listeners>>

\* -------------------------------------------------------------- disconnect
\* index.ts:162-165: disconnect() is called and enters getProvider()
StartDisconnect ==
  /\ Begin(GetProviderHead(NewCall("disconnect"), "d_prov"))
  /\ emitted' = <<>>
  /\ UNCHANGED <<options, connectKit, provider, providerImplementation,
                 shimFlag, nHandles, handleCaps, listeners>>

\* index.ts:176-181: one registration of each forwarder is removed
\* (EventEmitter.removeListener removes at most one registration per call)
Detach(h) ==
  IF handleCaps.removeListener /\ listeners[h] > 0
    THEN [listeners EXCEPT ![h] = @ - 1] ELSE listeners

\* variants of DisconnectClearsShim: the flag is never cleared, and cleared
\* for any implementation
DisconnectClearsShimNever == FALSE

DisconnectClearsShimAlways == ShimEnabled

\* index.ts:184-187: the condition under which disconnect() clears the flag
DisconnectClearsShim ==
  ShimEnabled /\ providerImplementation = LedgerConnect

\* index.ts:176-192: listeners detached, flag cleared, disconnect returns
DisconnectTail(c, entries) ==
  /\ listeners' = Detach(c.h)
  /\ shimFlag' = (IF DisconnectClearsShim THEN FALSE ELSE shimFlag)
  /\ Put(c,
       Finished(Logged(c,
                  entries
                  \o (IF handleCaps.removeListener
                        THEN <<"provider.removeListener">> ELSE <<>>)
                  \o (IF DisconnectClearsShim
                        THEN <<"localStorage.removeItem">> ELSE <<>>)),
                Return("void")))

\* index.ts:165-192: the handle arrived; a WalletConnect handle is told to
\* disconnect and awaited, any other goes straight to the tail
DisconnectProvider(c) ==
  /\ c.pc = "d_prov"
  /\ IF c.h # 0 /\ providerImplementation = WalletConnect
       THEN /\ Put(c,
                 At(Logged(c, <<"provider.disconnect">>), "d_wc"))
            /\ UNCHANGED <<listeners, shimFlag>>
       ELSE DisconnectTail(c, <<>>)
  /\ emitted' = <<>>
  /\ UNCHANGED <<options, connectKit, provider, providerImplementation,
                 nHandles, handleCaps>>

\* index.ts:173-192: provider.disconnect() resolved
DisconnectResolve(c) ==
  /\ c.pc = "d_wc"
  /\ DisconnectTail(c, <<>>)
  /\ emitted' = <<>>
  /\ UNCHANGED <<options, connectKit, provider, providerImplementation,
                 nHandles, handleCaps>>

\* index.ts:173: provider.disconnect() rejected; disconnect has no catch
DisconnectReject(c) ==
  /\ c.pc = "d_wc"
  /\ \E e \in Errors :
       Put(c, Finished(c, Reject("disconnect", e)))
  /\ emitted' = <<>>
  /\ UNCHANGED <<options, connectKit, provider, providerImplementation,
                 shimFlag, nHandles, handleCaps, listeners>>

\* ------------------------------------------------------------ isAuthorized
\* variant of IsAuthorizedShimmed: the flag is never looked at
IsAuthorizedShimmedNever == FALSE

\* index.ts:248-252: the shim check
IsAuthorizedShimmed == ShimEnabled /\ shimFlag

\* index.ts:243-256: isAuthorized() is called: it answers false at once when
\* shimmed, and enters getProvider() otherwise
StartIsAuthorized ==
  /\ Begin(
       IF IsAuthorizedShimmed
         THEN Finished(NewCall("isAuthorized"), Return("false"))
         ELSE GetProviderHead(NewCall("isAuthorized"), "i_req"))
  /\ emitted' = <<>>
  /\ UNCHANGED <<options, connectKit, provider, providerImplementation,
                 shimFlag, nHandles, handleCaps, listeners>>

\* index.ts:263: !!account
HasAccount(account) == IF account # Undefined THEN "true" ELSE "false"

\* index.ts:257-263: the accounts arrive
IsAuthorizedResponse(c) ==
  /\ c.pc = "i_wait"
  /\ \E accounts \in AccountLists :
       Put(c,
         Finished([c EXCEPT !.account = First(accounts)],
                  Return(HasAccount(First(accounts)))))
  /\ emitted' = <<>>
  /\ UNCHANGED <<options, connectKit, provider, providerImplementation,
                 shimFlag, nHandles, handleCaps, listeners>>

\* index.ts:257 and 264-266: eth_accounts rejects
IsAuthorizedReject(c) ==
  /\ c.pc = "i_wait"
  /\ \E e \in Errors :
       Put(c, Finished(c, Reject("isAuthorized", e)))
  /\ emitted' = <<>>
  /\ UNCHANGED <<options, connectKit, provider, providerImplementation,
                 shimFlag, nHandles, handleCaps, listeners>>

\* --------------------------------------------------------------- getSigner
\* the bag of the calls of the set recs that have not ended
Suspended(recs) == SetToBag({r \in recs : r.pc # "idle"})

\* index.ts:231-237: getSigner() is called: it calls getProvider() and
\* then, before anything is awaited, getAccount(), which enters
\* getProvider() in its turn; each runs to its first await.  The two go on
\* as calls of their own; of two that end at once the first is shown in done.
StartGetSigner ==
  /\ LET p == GetProviderHead(NewCall("getProvider"), "s_prov")
         a == GetProviderHead(NewCall("getAccount"), "ga_req")
     IN /\ calls' = calls (+) Suspended({p}) (+) Suspended({a})
        /\ BagCardinality(calls') <= MaxInFlight
        /\ done' = (IF p.pc = "idle" THEN p ELSE NoCall)
  /\ emitted' = <<>>
  /\ UNCHANGED <<options, connectKit, provider, providerImplementation,
                 shimFlag, nHandles, handleCaps, listeners>>

\* --------------------------------------------------------- event forwarders
Signal(type, payload) == [type |-> type, payload |-> payload]

\* variant of onAccountsChanged without the case of the empty list
onAccountsChangedNoEmptyCase(accounts) ==
  Signal("change", getAddress(First(accounts)))

\* index.ts:269-274
onAccountsChanged(accounts) ==
  IF Len(accounts) = 0
    THEN Signal("disconnect", "none")
    ELSE Signal("change", getAddress(accounts[1]))

\* index.ts:276-282
onChainChanged == Signal("change", "chain")

\* index.ts:284-287
onDisconnect == Signal("disconnect", "none")

\* variant of OnDisconnectClearsShim with the test of disconnect()
OnDisconnectClearsShimForLedgerConnect ==
  ShimEnabled /\ providerImplementation = LedgerConnect

\* index.ts:288-291: the condition under which onDisconnect clears the flag
OnDisconnectClearsShim == ShimEnabled

\* a handle calls every registration of the listener for the event
Deliver(h, signal) == [i \in 1..listeners[h] |-> signal]

\* the handle h raises accountsChanged with the list accounts
AccountsChanged(h, accounts) ==
  /\ listeners[h] > 0
  /\ emitted' = Deliver(h, onAccountsChanged(accounts))
  /\ UNCHANGED <<options, connectKit, provider, providerImplementation,
                 shimFlag, nHandles, handleCaps, listeners, calls>>
  /\ done' = NoCall

\* the handle h raises accountsChanged
AccountsChangedEvent(h) ==
  \E accounts \in AccountLists : AccountsChanged(h, accounts)

\* the handle h raises chainChanged
ChainChangedEvent(h) ==
  /\ listeners[h] > 0
  /\ emitted' = Deliver(h, onChainChanged)
  /\ UNCHANGED <<options, connectKit, provider, providerImplementation,
                 shimFlag, nHandles, handleCaps, listeners, calls>>
  /\ done' = NoCall

\* the handle h raises disconnect
DisconnectEvent(h) ==
  /\ listeners[h] > 0
  /\ emitted' = Deliver(h, onDisconnect)
  /\ shimFlag' = (IF OnDisconnectClearsShim THEN FALSE ELSE shimFlag)
  /\ UNCHANGED <<options, connectKit, provider, providerImplementation,
                 nHandles, handleCaps, listeners, calls>>
  /\ done' = NoCall

\* ------------------------------------------------------------ specification
InFlight == BagToSet(calls)

Next ==
  \/ StartConnect
  \/ StartDisconnect
  \/ StartIsAuthorized
  \/ StartGetSigner
  \/ \E c \in InFlight : GetProviderResolve(c)
  \/ \E c \in InFlight : GetProviderReject(c)
  \/ \E c \in InFlight : ConnectCheckSupport(c)
  \/ \E c \in InFlight : ConnectAttach(c)
  \/ \E c \in InFlight : GetAccountResponse(c)
  \/ \E c \in InFlight : GetAccountReject(c)
  \/ \E c \in InFlight : GetChainIdResponse(c)
  \/ \E c \in InFlight : GetChainIdReject(c)
  \/ \E c \in InFlight : DisconnectProvider(c)
  \/ \E c \in InFlight : DisconnectResolve(c)
  \/ \E c \in InFlight : DisconnectReject(c)
  \/ \E c \in InFlight : IsAuthorizedResponse(c)
  \/ \E c \in InFlight : IsAuthorizedReject(c)
  \/ \E h \in Handles : AccountsChangedEvent(h)
  \/ \E h \in Handles : ChainChangedEvent(h)
  \/ \E h \in Handles : DisconnectEvent(h)

Spec == Init /\ [][Next]_vars

\* calls never overlap: a call starts only when no call is in flight
NextSequential ==
  \/ calls = EmptyBag /\ StartConnect
  \/ calls = EmptyBag /\ StartDisconnect
  \/ calls = EmptyBag /\ StartIsAuthorized
  \/ \E c \in InFlight : GetProviderResolve(c)
  \/ \E c \in InFlight : GetProviderReject(c)
  \/ \E c \in InFlight : ConnectCheckSupport(c)
  \/ \E c \in InFlight : ConnectAttach(c)
  \/ \E c \in InFlight : GetAccountResponse(c)
  \/ \E c \in InFlight : GetAccountReject(c)
  \/ \E c \in InFlight : GetChainIdResponse(c)
  \/ \E c \in InFlight : GetChainIdReject(c)
  \/ \E c \in InFlight : DisconnectProvider(c)
  \/ \E c \in InFlight : DisconnectResolve(c)
  \/ \E c \in InFlight : DisconnectReject(c)
  \/ \E c \in InFlight : IsAuthorizedResponse(c)
  \/ \E c \in InFlight : IsAuthorizedReject(c)
  \/ \E h \in Handles : AccountsChangedEvent(h)
  \/ \E h \in Handles : ChainChangedEvent(h)
  \/ \E h \in Handles : DisconnectEvent(h)

SpecSequential == Init /\ [][NextSequential]_vars

\* calls never overlap, only connect() and disconnect() are called, and
\* every call succeeds: the connect kit and the handle answer every request,
\* eth_requestAccounts with at least one account
NextSuccessful ==
  \/ calls = EmptyBag /\ StartConnect /\ connectKit = "loaded"
  \/ calls = EmptyBag /\ StartDisconnect /\ connectKit = "loaded"
  \/ \E c \in InFlight : GetProviderResolve(c)
  \/ \E c \in InFlight : ConnectCheckSupport(c)
  \/ \E c \in InFlight : ConnectAttach(c)
  \/ \E c \in InFlight : GetAccountResponse(c) /\ done'.res.kind # "throw"
  \/ \E c \in InFlight : GetChainIdResponse(c)
  \/ \E c \in InFlight : DisconnectProvider(c)
  \/ \E c \in InFlight : DisconnectResolve(c)
  \/ \E h \in Handles : AccountsChangedEvent(h)
  \/ \E h \in Handles : ChainChangedEvent(h)
  \/ \E h \in Handles : DisconnectEvent(h)

SpecSuccessful == Init /\ [][NextSuccessful]_vars

\* ================================================================== claims
\* the call that ended in the latest step
Ended(op) == done.op = op
Returned(op) == done.op = op /\ done.res.kind = "return"
Threw(op) == done.op = op /\ done.res.kind = "throw"

\* how often a call made the call x
Count(x, log) == Cardinality({i \in 1..Len(log) : log[i] = x})
Made(x, log) == Count(x, log) > 0
LastMade(log) == IF Len(log) = 0 THEN "none" ELSE log[Len(log)]

\* ---------------------------------------------------------------------- C1
\* C1 as stated: right after a connect() that returned with the shim option
\* enabled and WalletConnect resolved, the Disconnect Shim Flag is present.
C1_Original ==
  (Returned("connect") /\ ShimEnabled /\ providerImplementation = WalletConnect)
    => shimFlag

\* C1 as amended: right after a connect() that returned with the shim option
\* enabled and LedgerConnect resolved, the Disconnect Shim Flag is present.
C1_FlagPresentAfterLedgerConnect ==
  (Returned("connect") /\ ShimEnabled /\ providerImplementation = LedgerConnect)
    => shimFlag

C1_Witness ==
  /\ Returned("connect")
  /\ ShimEnabled
  /\ providerImplementation = LedgerConnect
  /\ LastMade(done.log) = "localStorage.setItem"
  /\ shimFlag

\* ---------------------------------------------------------------------- C2
\* C2 as stated: the step in which a connect() that resolved LedgerConnect
\* returns leaves the Disconnect Shim Flag as it was, shim option on or off.
C2_Original ==
  [][ (Returned("connect")' /\ providerImplementation' = LedgerConnect)
        => shimFlag' = shimFlag ]_vars

\* C2 as amended: the step in which a connect() returns leaves the flag as
\* it was, and makes no storage call, when WalletConnect is resolved (shim
\* option on or off) or when LedgerConnect is resolved with the shim option
\* off.
C2_FlagUntouchedByOtherConnects ==
  [][ (Returned("connect")'
       /\ ~(ShimEnabled /\ providerImplementation' = LedgerConnect))
        => (shimFlag' = shimFlag /\ ~Made("localStorage.setItem", done'.log)) ]_vars

C2_Witness ==
  /\ Returned("connect")
  /\ ShimEnabled
  /\ providerImplementation = WalletConnect
  /\ ~Made("localStorage.setItem", done.log)
  /\ ~shimFlag

\* ---------------------------------------------------------------------- C3
\* C3 as stated: with the shim option enabled, right after a disconnect()
\* that returned the Disconnect Shim Flag is absent, whatever implementation
\* was last resolved.
C3_Original ==
  (Returned("disconnect") /\ ShimEnabled) => ~shimFlag

\* C3 as amended: with the shim option enabled, the step in which a
\* disconnect() returns leaves the flag absent when LedgerConnect is the
\* last resolved implementation, and leaves the flag as it was when
\* WalletConnect or none is.
C3_FlagClearedForLedgerConnectOnly ==
  [][ (Returned("disconnect")' /\ ShimEnabled)
        => IF providerImplementation' = LedgerConnect
             THEN ~shimFlag'
             ELSE shimFlag' = shimFlag ]_vars

C3_Witness ==
  /\ Returned("disconnect")
  /\ ShimEnabled
  /\ providerImplementation = LedgerConnect
  /\ LastMade(done.log) = "localStorage.removeItem"
  /\ ~shimFlag

C5_IsAuthorizedNeverThrows ==
  Ended("isAuthorized")
    => /\ done.res.kind = "return"
       /\ done.res.class \in {"true", "false"}
       /\ (done.res.class = "true")
            <=> (Made("eth_accounts", done.log)
                 /\ done.account \notin {"none", Undefined})

C5_Witness ==
  /\ Returned("isAuthorized")
  /\ done.res.class = "false"
  /\ LastMade(done.log) = "eth_accounts"
  /\ done.account = "none"

\* ---------------------------------------------------------------------- C6
\* C6 as stated: with the shim option enabled, an isAuthorized() called
\* right after a connect() returned (no disconnect() and no event between)
\* is not answered from the flag: it asks the handle for eth_accounts.
C6_Original ==
  [][ (Returned("connect") /\ ShimEnabled /\ StartIsAuthorized)
        => ~Ended("isAuthorized")' ]_vars

\* ---------------------------------------------------------------------- C7
\* C7 as stated: a disconnect() called on a connector on which no call is
\* in flight, no handle is cached and none was ever resolved returns in the
\* step of the call, has made no call on the connect kit or the handle, and
\* leaves the cached handle, the listeners and the flag as they were.
C7_Original ==
  [][ (StartDisconnect /\ calls = EmptyBag /\ provider = 0 /\ nHandles = 0)
        => /\ Returned("disconnect")'
           /\ done'.log = <<>>
           /\ calls' = calls
           /\ UNCHANGED <<provider, listeners, shimFlag>> ]_vars

\* ---------------------------------------------------------------------- C8
\* C8: a connect() whose eth_requestAccounts was rejected with code 4001
\* ends by throwing a UserRejectedRequestError, and a connect() whose last
\* call was eth_requestAccounts (it was rejected, or answered with no
\* account) never returns.
C8_UserRejectionDuringAccountDiscovery ==
  (Ended("connect") /\ LastMade(done.log) = "eth_requestAccounts")
    => /\ done.res.kind = "throw"
       /\ (done.res.code = UserRejectedCode
             => done.res.class = "UserRejectedRequestError")

C8_Witness ==
  /\ Threw("connect")
  /\ LastMade(done.log) = "eth_requestAccounts"
  /\ done.res.code = UserRejectedCode
  /\ done.res.class = "UserRejectedRequestError"

\* ---------------------------------------------------------------------- C9
\* a step in which some call asks the connect kit for a handle
InvokesKitGetProvider ==
  \E c \in BagToSet(calls') :
    c.pc = "gp_wait" /\ CopiesIn(c, calls') > CopiesIn(c, calls)

\* a step in which a connect() probes checkSupport
InvokesCheckSupport ==
  /\ connectKit = "loaded"
  /\ \E c \in BagToSet(calls) :
       c.pc = "c_kit" /\ CopiesIn(c, calls') < CopiesIn(c, calls)

\* every connect() that returns has issued x exactly once
FreshOnEachConnect(x) == Returned("connect") => Count(x, done.log) = 1

\* C9 as stated, for non-overlapping successful connect() and disconnect()
\* calls: connectKit.getProvider and connectKit.checkSupport are each
\* invoked once only, the cached handle never changes, and every connect()
\* that returns has issued eth_requestAccounts and eth_chainId.
C9_Original ==
  [][ /\ provider # 0 => (provider' = provider /\ ~InvokesKitGetProvider)
      /\ providerImplementation # Undefined => ~InvokesCheckSupport
      /\ FreshOnEachConnect("eth_requestAccounts")'
      /\ FreshOnEachConnect("eth_chainId")' ]_vars

\* C9 as amended, for non-overlapping successful connect() and disconnect()
\* calls: connectKit.getProvider is invoked once only and the cached handle
\* never changes, while connectKit.checkSupport, eth_requestAccounts and
\* eth_chainId are issued afresh by every connect().
C9_HandleResolvedOnceProbeAndDiscoveryFresh ==
  [][ /\ provider # 0 => (provider' = provider /\ ~InvokesKitGetProvider)
      /\ nHandles' <= 1
      /\ FreshOnEachConnect("connectKit.checkSupport")'
      /\ FreshOnEachConnect("eth_requestAccounts")'
      /\ FreshOnEachConnect("eth_chainId")' ]_vars

\* a connect() returned on a cached handle: it probed and discovered again
\* without asking the connect kit for a handle
C9_Witness ==
  /\ Returned("connect")
  /\ ~Made("connectKit.getProvider", done.log)
  /\ Count("connectKit.checkSupport", done.log) = 1
  /\ Count("eth_requestAccounts", done.log) = 1
  /\ Count("eth_chainId", done.log) = 1
  /\ nHandles = 1
  /\ \E h \in Handles : listeners[h] = 2

\* --------------------------------------------------------------------- C10
\* C10 as stated, for non-overlapping calls: right after a disconnect()
\* that returned no forwarder is registered on any handle.
C10_Original ==
  Returned("disconnect") => \A h \in Handles : listeners[h] = 0

\* --------------------------------------------------------------------- C11
\* the options of a connector constructed without an explicit shimDisconnect:
\* no options object, or an options object that leaves shimDisconnect out
DefaultedOptions ==
  {Constructor(arg) : arg \in {a \in CtorArgs : a.shimDisconnect = Undefined}}

\* C11 as stated: on a connector constructed without an explicit
\* shimDisconnect the shim is active: right after a connect() that returned
\* with LedgerConnect resolved the Disconnect Shim Flag is present, and an
\* isAuthorized() called while the flag is present returns false in the step
\* of the call.
C11_Original ==
  [][ (options \in DefaultedOptions)
        => /\ (Returned("connect")' /\ providerImplementation' = LedgerConnect)
                => shimFlag'
           /\ (StartIsAuthorized /\ shimFlag)
                => (Returned("isAuthorized")' /\ done'.res.class = "false") ]_vars

\* --------------------------------------------------------------------- C12
\* C12: when a handle raises accountsChanged, every forwarder registered on
\* it is called once and emits exactly one lifecycle signal: 'disconnect'
\* for an empty list, 'change' carrying the checksum form of the first
\* address otherwise; the Disconnect Shim Flag and the cached handle stay
\* as they were.
C12_AccountsChangedForwardsOneSignal ==
  [][ \A h \in Handles : \A accounts \in AccountLists :
        AccountsChanged(h, accounts)
          => /\ Len(emitted') = listeners[h]
             /\ \A i \in 1..listeners[h] :
                  emitted'[i] = (IF accounts = <<>>
                                   THEN [type |-> "disconnect", payload |-> "none"]
                                   ELSE [type |-> "change", payload |-> "0xaB12"])
             /\ UNCHANGED <<shimFlag, provider>> ]_vars

\* one forwarder was told of an empty list: one 'disconnect', flag kept
C12_Witness ==
  /\ emitted = << [type |-> "disconnect", payload |-> "none"] >>
  /\ ShimEnabled
  /\ shimFlag
  /\ provider # 0
  /\ listeners[provider] = 1

\* --------------------------------------------------------------------- C13
\* a step that emits a 'disconnect' lifecycle signal
EmitsDisconnect ==
  \E i \in 1..Len(emitted') : emitted'[i].type = "disconnect"

\* C13 as stated, as what the invariant asks of every step: the Disconnect
\* Shim Flag becomes present only in the step in which a connect() returns
\* with WalletConnect resolved, and it is absent after every step that ends
\* the session: a disconnect() returns, or a 'disconnect' lifecycle signal
\* is emitted.
C13_Original ==
  [][ /\ (~shimFlag /\ shimFlag')
           => (Returned("connect")' /\ providerImplementation' = WalletConnect)
      /\ (Returned("disconnect")' \/ EmitsDisconnect) => ~shimFlag' ]_vars

\* C13 as amended: the flag becomes present only in the step in which a
\* connect() returns with the shim option enabled and LedgerConnect
\* resolved; it becomes absent only, with the shim option enabled, in the
\* step in which a disconnect() returns with LedgerConnect resolved or in
\* which the handle's 'disconnect' event is forwarded; an accountsChanged
\* event leaves it as it was.
C13_FlagWrittenByConnectClearedByDisconnect ==
  [][ /\ (~shimFlag /\ shimFlag')
           => /\ Returned("connect")'
              /\ ShimEnabled
              /\ providerImplementation' = LedgerConnect
      /\ (shimFlag /\ ~shimFlag')
           => /\ ShimEnabled
              /\ \/ Returned("disconnect")' /\ providerImplementation' = LedgerConnect
                 \/ \E h \in Handles : DisconnectEvent(h)
      /\ (\E h \in Handles : AccountsChangedEvent(h)) => shimFlag' = shimFlag
    ]_vars

\* a disconnect() on a WalletConnect handle returned and the flag is still
\* present
C13_Witness ==
  /\ Returned("disconnect")
  /\ ShimEnabled
  /\ providerImplementation = WalletConnect
  /\ Made("provider.disconnect", done.log)
  /\ shimFlag

\* --------------------------------------------------------------------- C14
\* C14 as stated, for non-overlapping calls: a connect() that ends by
\* throwing has left no forwarder registered on the handle and has not
\* written the Disconnect Shim Flag: it made neither provider.on nor
\* localStorage.setItem (connect() never calls provider.removeListener or
\* localStorage.removeItem).
C14_Original ==
  Threw("connect")
    => /\ ~Made("provider.on", done.log)
       /\ ~Made("localStorage.setItem", done.log)

\* --------------------------------------------------------------------- C15
\* the calls a connect() makes, in the order of index.ts:101-137
ConnectOrder ==
  << "connectKit.checkSupport", "connectKit.getProvider", "provider.on",
     "emit connecting", "eth_requestAccounts", "eth_chainId",
     "localStorage.setItem" >>

\* the place of the call x in ConnectOrder, 0 if it has none
Rank(x) ==
  IF \E i \in 1..Len(ConnectOrder) : ConnectOrder[i] = x
    THEN CHOOSE i \in 1..Len(ConnectOrder) : ConnectOrder[i] = x
    ELSE 0

\* the calls of log are calls of ConnectOrder, in that order, none twice
InConnectOrder(log) ==
  /\ \A i \in 1..Len(log) : Rank(log[i]) > 0
  /\ \A i, j \in 1..Len(log) : i < j => Rank(log[i]) < Rank(log[j])

\* the connect() calls in flight, and the one that has just ended
ConnectCalls == {c \in InFlight \cup {done} : c.op = "connect"}

\* C15: in every connect() call, in flight or just ended, the calls made so
\* far follow ConnectOrder; the forwarders are attached and 'connecting' is
\* emitted only with the handle in hand, and together when the handle has
\* on; eth_requestAccounts is issued only after 'connecting'; eth_chainId
\* only after eth_requestAccounts was answered with an account, so never
\* when account discovery failed; the flag is written only after eth_chainId
\* was answered, in the step in which connect() returns.
C15_ConnectStepsInOrder ==
  \A c \in ConnectCalls :
    /\ InConnectOrder(c.log)
    /\ Made("emit connecting", c.log) => c.h # 0
    /\ Made("provider.on", c.log)
         <=> (Made("emit connecting", c.log) /\ handleCaps.on)
    /\ Made("eth_requestAccounts", c.log) => Made("emit connecting", c.log)
    /\ Made("eth_chainId", c.log)
         => (Made("eth_requestAccounts", c.log) /\ c.account # "none")
    /\ (c.pc = "gc_wait") => LastMade(c.log) = "eth_chainId"
    /\ Made("localStorage.setItem", c.log)
         => (Made("eth_chainId", c.log) /\ c.pc = "idle"
             /\ c.res.kind = "return")

\* a connect() went through every step and returned
C15_Witness ==
  /\ Returned("connect")
  /\ done.log = ConnectOrder

\* --------------------------------------------------------------------- C16
\* C16: when a handle raises 'disconnect', every forwarder registered on it
\* is called once and emits exactly one 'disconnect' lifecycle signal;
\* afterwards the Disconnect Shim Flag is absent if the shim option is
\* enabled, whatever implementation is resolved, and as it was if the
\* option is disabled.
C16_DisconnectEventClearsFlag ==
  [][ \A h \in Handles :
        DisconnectEvent(h)
          => /\ Len(emitted') = listeners[h]
             /\ \A i \in 1..listeners[h] :
                  emitted'[i] = [type |-> "disconnect", payload |-> "none"]
             /\ IF Truthy(options.shimDisconnect)
                  THEN ~shimFlag'
                  ELSE shimFlag' = shimFlag ]_vars

\* a 'disconnect' signal was emitted by one forwarder on a WalletConnect
\* handle, and the flag is absent with the shim option enabled
C16_Witness ==
  /\ emitted = << [type |-> "disconnect", payload |-> "none"] >>
  /\ Truthy(options.shimDisconnect)
  /\ providerImplementation = WalletConnect
  /\ provider # 0
  /\ listeners[provider] = 1
  /\ ~shimFlag

\* --------------------------------------------------------------------- C17
\* C17 as stated: a connect() whose connectKit.getProvider was rejected
\* with code 4001 throws that error unchanged.
C17_Original ==
  (Threw("connect")
   /\ LastMade(done.log) = "connectKit.getProvider"
   /\ done.res.code = UserRejectedCode)
    => done.res.class = "raw"

\* C17 as amended: connect() classifies by the error code alone, wherever
\* in the call the error was raised: it throws a UserRejectedRequestError
\* exactly when the error carries code 4001, from connectKit.getProvider as
\* well as from eth_requestAccounts or eth_chainId; a failure to load the
\* connect kit carries no code and is thrown unchanged.
C17_RejectionClassifiedByCodeAlone ==
  Threw("connect")
    => /\ (done.res.class = "UserRejectedRequestError")
            <=> (done.res.code = UserRejectedCode)
       /\ done.log = <<>> => done.res.class = "raw"

\* connectKit.getProvider was rejected with 4001 and connect() threw a
\* UserRejectedRequestError
C17_Witness ==
  /\ Threw("connect")
  /\ LastMade(done.log) = "connectKit.getProvider"
  /\ done.res.code = UserRejectedCode
  /\ done.res.class = "UserRejectedRequestError"

\* --------------------------------------------------------------------- C18
\* the requests a connect() makes on the connect kit for a handle and on
\* the handle
TransportCalls ==
  {"connectKit.getProvider", "eth_requestAccounts", "eth_chainId"}

\* C18: a connect() call makes each of connectKit.getProvider,
\* eth_requestAccounts and eth_chainId at most once; in the step in which
\* one of them is rejected the call ends by throwing, having made no call
\* after the rejected one, and what it throws is a UserRejectedRequestError
\* only for code 4001 (so not for -32002).
C18_NoRetryInConnect ==
  [][ /\ \A c \in ConnectCalls' :
           \A x \in TransportCalls : Count(x, c.log) <= 1
      /\ \A c \in InFlight :
           (c.op = "connect"
            /\ (GetProviderReject(c) \/ GetAccountReject(c) \/ GetChainIdReject(c)))
             => /\ Threw("connect")'
                /\ done'.log = c.log
                /\ calls' = calls (-) SetToBag({c})
                /\ done'.res.class = "UserRejectedRequestError"
                     => done'.res.code = UserRejectedCode ]_vars

\* eth_chainId was rejected with -32002 and connect() threw that error
\* without another call
C18_Witness ==
  /\ Threw("connect")
  /\ done.res.code = ResourceUnavailableCode
  /\ done.res.class = "raw"
  /\ LastMade(done.log) = "eth_chainId"
  /\ Count("eth_chainId", done.log) = 1

\* --------------------------------------------------------------------- C19
\* the calls in flight that wait for the answer of connectKit.getProvider
KitRequests ==
  BagCardinality([c \in {x \in InFlight : x.pc = "gp_wait"}
                    |-> CopiesIn(c, calls)])

\* C19 as stated: in every interleaving of overlapping calls, getSigner()
\* among them, connectKit.getProvider is invoked at most once (no two calls
\* wait for its answer, and none does once a handle was handed out), at
\* most one handle is created, and the cached handle, once assigned, is
\* never assigned again.
C19_Original ==
  [][ /\ KitRequests' <= 1
      /\ nHandles' >= 1 => KitRequests' = 0
      /\ nHandles' <= 1
      /\ provider # 0 => provider' = provider ]_vars

\* --------------------------------------------------------------------- C20
\* C20 as stated, for overlapping calls: no connect() returns a session
\* whose forwarders a disconnect() has detached meanwhile: right after a
\* connect() that returned on a handle with on, the forwarders are
\* registered on that handle.
C20_Original ==
  (Returned("connect") /\ handleCaps.on) => listeners[done.h] > 0

====
